---- MODULE Spec2Model ----
(***************************************************************************)
(* Trapdoor 1.0 (src/server.py): an HTTP gateway to the local filesystem   *)
(* and to command execution, gated by a bearer token and by one of three   *)
(* access levels chosen at start-up.                                       *)
(*                                                                         *)
(* Strings the code inspects character by character (the Authorization     *)
(* header, file contents) are sequences of one-character strings.  Paths   *)
(* are sequences of components below the filesystem root.  A handler runs  *)
(* as one action: it records the request it served (req), the response it  *)
(* produced (resp) and the kinds of side effect it had (effects).          *)
(***************************************************************************)
EXTENDS Integers, Sequences, FiniteSets, TLC

VARIABLES ACCESS,   \* the active level's permission table (global ACCESS)
          TOKEN,    \* the stored secret (global TOKEN)
          fs,       \* the host filesystem below the root
          procs,    \* processes spawned by /exec that are still running
          req,      \* the request the last handler served
          resp,     \* the response it returned
          effects   \* the side effects it had

vars == <<ACCESS, TOKEN, fs, procs, req, resp, effects>>

-----------------------------------------------------------------------------
(* Bounds of the model.                                                    *)

\* Longest file the model stores: an append that would exceed it is not taken.
MaxFileLen == 3
\* Most residual processes the model tracks.
MaxProcs == 1

-----------------------------------------------------------------------------
(* Characters and strings.                                                 *)

CR == "\r"
LF == "\n"
\* A byte that is not valid in the locale's text encoding (UTF-8).
BAD == "0xFF"

\* os.linesep on the POSIX hosts the server targets.
linesep == <<LF>>

BearerPrefix == <<"B", "e", "a", "r", "e", "r", " ">>

startswith(s, prefix) ==
    /\ Len(s) >= Len(prefix)
    /\ SubSeq(s, 1, Len(prefix)) = prefix

\* s.split(" ", 1)[1]: what follows the first space of s.
SplitAfterSpace(s) ==
    LET i == CHOOSE k \in 1..Len(s) :
                 /\ s[k] = " "
                 /\ \A j \in 1..(k - 1) : s[j] # " "
    IN  SubSeq(s, i + 1, Len(s))

RECURSIVE Flatten(_)
Flatten(ss) == IF ss = <<>> THEN <<>> ELSE Head(ss) \o Flatten(Tail(ss))

\* Text-mode write (newline=None): every "\n" becomes os.linesep.
EncodeText(s) == Flatten([i \in 1..Len(s) |-> IF s[i] = LF THEN linesep ELSE <<s[i]>>])

\* Text-mode read (newline=None, universal newlines): "\r\n" and a lone "\r"
\* both become "\n".
RECURSIVE UniversalNewlines(_)
UniversalNewlines(s) ==
    IF s = <<>> THEN <<>>
    ELSE IF Head(s) = CR
         THEN IF Len(s) >= 2 /\ s[2] = LF
              THEN <<LF>> \o UniversalNewlines(SubSeq(s, 3, Len(s)))
              ELSE <<LF>> \o UniversalNewlines(Tail(s))
         ELSE <<Head(s)>> \o UniversalNewlines(Tail(s))

\* Whether the stored bytes decode as text (else UnicodeDecodeError).
Decodable(s) == \A i \in 1..Len(s) : s[i] # BAD

-----------------------------------------------------------------------------
(* Access levels.                                                          *)

LevelNames == {"limited", "solid", "full"}

LEVELS_exec_at_solid ==
    [l \in LevelNames |->
        [fs_read   |-> TRUE,
         fs_write  |-> l \in {"solid", "full"},
         fs_delete |-> l = "full",
         exec      |-> l \in {"solid", "full"}]]

LEVELS ==
    [l \in LevelNames |->
        [fs_read   |-> TRUE,
         fs_write  |-> l \in {"solid", "full"},
         fs_delete |-> l = "full",
         exec      |-> l = "full"]]

-----------------------------------------------------------------------------
(* Authentication.                                                         *)

Ok200 == [status |-> 200, detail |-> ""]
HttpError(code, text) == [status |-> code, detail |-> text]

\* A header is absent (None) or present with a value.
NoHeader == [present |-> FALSE, value |-> <<>>]
HeaderOf(s) == [present |-> TRUE, value |-> s]

require_auth_401_for_wrong_token(authorization) ==
    IF \/ ~authorization.present
       \/ authorization.value = <<>>
       \/ ~startswith(authorization.value, BearerPrefix)
       \/ SplitAfterSpace(authorization.value) # TOKEN
    THEN HttpError(401, "Missing Authorization header")
    ELSE Ok200

require_auth(authorization) ==
    IF \/ ~authorization.present
       \/ authorization.value = <<>>
       \/ ~startswith(authorization.value, BearerPrefix)
    THEN HttpError(401, "Missing Authorization header")
    ELSE IF SplitAfterSpace(authorization.value) # TOKEN
         THEN HttpError(403, "Invalid token")
         ELSE Ok200

-----------------------------------------------------------------------------
(* The filesystem.                                                         *)

Root == <<>>
\* The invoking user's home directory, which "~" expands to.
Home == <<"a">>
\* The paths below the root that the model tracks.
Nodes == {<<"a">>, <<"a", "b">>}
\* The component names, in sorted order.
SortedNames == <<"a", "b">>

Absent == [kind |-> "absent", data |-> <<>>]
Dir == [kind |-> "dir", data |-> <<>>]
File(bytes) == [kind |-> "file", data |-> bytes]

Parent(p) == SubSeq(p, 1, Len(p) - 1)
IsPrefix(p, q) == Len(p) <= Len(q) /\ SubSeq(q, 1, Len(p)) = p

\* Path.expanduser(): a leading "~" becomes the home directory.
expanduser(raw) ==
    IF raw # <<>> /\ Head(raw) = "~" THEN Home \o Tail(raw) ELSE raw

\* Path.resolve(): ".." components are folded, the root being its own parent.
RECURSIVE Normalize(_, _)
Normalize(done, rest) ==
    IF rest = <<>> THEN done
    ELSE IF Head(rest) = ".."
         THEN Normalize(IF done = <<>> THEN <<>> ELSE Parent(done), Tail(rest))
         ELSE Normalize(Append(done, Head(rest)), Tail(rest))

\* Path(path).expanduser().resolve()
Resolve(raw) == Normalize(<<>>, expanduser(raw))

\* Path.exists(), Path.is_dir(), Path.is_file()
exists(f, p) == p = Root \/ f[p].kind # "absent"
is_dir(f, p) == p = Root \/ f[p].kind = "dir"
is_file(f, p) == p # Root /\ f[p].kind = "file"

Done(f) == [ok |-> TRUE, error |-> "", fs |-> f]
Raise(name, f) == [ok |-> FALSE, error |-> name, fs |-> f]

RECURSIVE mkdir_no_exist_ok(_, _)
mkdir_no_exist_ok(f, p) ==
    IF exists(f, p)
    THEN Raise("FileExistsError", f)
    ELSE IF ~exists(f, Parent(p))
         THEN LET up == mkdir_no_exist_ok(f, Parent(p))
              IN  IF up.ok THEN Done([up.fs EXCEPT ![p] = Dir]) ELSE up
         ELSE IF ~is_dir(f, Parent(p))
              THEN Raise("NotADirectoryError", f)
              ELSE Done([f EXCEPT ![p] = Dir])

\* Path.mkdir(parents=True, exist_ok=True)
RECURSIVE mkdir(_, _)
mkdir(f, p) ==
    IF exists(f, p)
    THEN IF is_dir(f, p) THEN Done(f) ELSE Raise("FileExistsError", f)
    ELSE IF ~exists(f, Parent(p))
         THEN LET up == mkdir(f, Parent(p))
              IN  IF up.ok THEN Done([up.fs EXCEPT ![p] = Dir]) ELSE up
         ELSE IF ~is_dir(f, Parent(p))
              THEN Raise("NotADirectoryError", f)
              ELSE Done([f EXCEPT ![p] = Dir])

rmtree_top_only(f, p) == [f EXCEPT ![p] = Absent]

\* shutil.rmtree(p): p and everything beneath it.
rmtree(f, p) == [q \in Nodes |-> IF IsPrefix(p, q) THEN Absent ELSE f[q]]

\* Path.unlink()
unlink(f, p) == [f EXCEPT ![p] = Absent]

write_append_as_replace(f, p, content) ==
    IF is_dir(f, p) THEN Raise("IsADirectoryError", f)
    ELSE Done([f EXCEPT ![p] = File(EncodeText(content))])

\* Path.write_text(content): open(p, "w") then write.
write_text(f, p, content) ==
    IF is_dir(f, p) THEN Raise("IsADirectoryError", f)
    ELSE Done([f EXCEPT ![p] = File(EncodeText(content))])

\* open(p, "a") then write.
write_append(f, p, content) ==
    IF is_dir(f, p) THEN Raise("IsADirectoryError", f)
    ELSE Done([f EXCEPT ![p] = File(f[p].data \o EncodeText(content))])

\* What Path.read_text() returns for decodable stored bytes.
read_text(bytes) == UniversalNewlines(bytes)

-----------------------------------------------------------------------------
(* Command execution: subprocess.run(cmd, cwd=, capture_output=True,       *)
(* text=True, timeout=).                                                   *)

\* The default working directory, which exists on the host.
TmpDir == <<"tmp">>

\* What the host does with each program: whether it can be launched, how long
\* the process itself runs (dur), how long the child processes it starts keep
\* running and keep its output pipes open (childDur, 0 for none), its exit
\* code and the bytes it prints.
Programs ==
    [echo   |-> [launch |-> "ok", dur |-> 0, childDur |-> 0, rc |-> 0,
                 out |-> <<"h", CR, LF>>, err |-> <<>>],
     fail   |-> [launch |-> "ok", dur |-> 2, childDur |-> 0, rc |-> 1,
                 out |-> <<>>, err |-> <<"e">>],
     tree   |-> [launch |-> "ok", dur |-> 4, childDur |-> 4, rc |-> 0,
                 out |-> <<>>, err |-> <<>>],
     spawn  |-> [launch |-> "ok", dur |-> 0, childDur |-> 4, rc |-> 3,
                 out |-> <<>>, err |-> <<>>],
     bin    |-> [launch |-> "ok", dur |-> 0, childDur |-> 0, rc |-> 1,
                 out |-> <<BAD>>, err |-> <<>>],
     nope   |-> [launch |-> "FileNotFoundError", dur |-> 0, childDur |-> 0,
                 rc |-> 0, out |-> <<>>, err |-> <<>>],
     noexec |-> [launch |-> "PermissionError", dur |-> 0, childDur |-> 0,
                 rc |-> 0, out |-> <<>>, err |-> <<>>]]

ProgramNames == DOMAIN Programs

Max(a, b) == IF a >= b THEN a ELSE b

NotRun(name) ==
    [outcome |-> name, spawned |-> FALSE, residual |-> 0,
     stdout |-> <<>>, stderr |-> <<>>, returncode |-> 0]

\* run() waits for the process to exit and for its output pipes to close, up
\* to the timeout; when it expires run() kills the process it started, and
\* only that one, and raises TimeoutExpired.
subprocess_run(f, cmd, cwd, timeout) ==
    IF cmd = <<>> THEN NotRun("IndexError")
    ELSE IF cwd # TmpDir /\ ~exists(f, cwd) THEN NotRun("FileNotFoundError")
    ELSE IF cwd # TmpDir /\ ~is_dir(f, cwd) THEN NotRun("NotADirectoryError")
    ELSE LET b == Programs[cmd[1]] IN
         IF b.launch # "ok" THEN NotRun(b.launch)
         ELSE IF Max(b.dur, b.childDur) > timeout
              THEN [outcome |-> "TimeoutExpired", spawned |-> TRUE,
                    residual |-> IF b.childDur > timeout THEN 1 ELSE 0,
                    stdout |-> <<>>, stderr |-> <<>>, returncode |-> 0]
              ELSE IF ~Decodable(b.out) \/ ~Decodable(b.err)
                   THEN [outcome |-> "UnicodeDecodeError", spawned |-> TRUE,
                         residual |-> 0, stdout |-> <<>>, stderr |-> <<>>,
                         returncode |-> 0]
                   ELSE [outcome |-> "completed", spawned |-> TRUE, residual |-> 0,
                         stdout |-> UniversalNewlines(b.out),
                         stderr |-> UniversalNewlines(b.err),
                         returncode |-> b.rc]

-----------------------------------------------------------------------------
(* The handlers.  Each yields the response, the filesystem and the process *)
(* count it leaves, and the side effects it had.                           *)

Response(code, text, body) == [status |-> code, detail |-> text, body |-> body]

\* An HTTPException raised before the handler touched anything.
Refuse(e) ==
    [resp |-> Response(e.status, e.detail, <<>>), fs |-> fs, procs |-> procs,
     effects |-> {}]

\* An HTTPException raised, or an exception left uncaught (500), after the
\* handler had the side effects es and left the filesystem f.
Fail(code, text, f, es) ==
    [resp |-> Response(code, text, <<>>), fs |-> f, procs |-> procs, effects |-> es]

Reply(body, f, es) ==
    [resp |-> Response(200, "", body), fs |-> f, procs |-> procs, effects |-> es]

Forbidden_delete_checks_write(cap) ==
    ~ACCESS[IF cap = "fs_delete" THEN "fs_write" ELSE cap]

\* not ACCESS[cap]
Forbidden(cap) == ~ACCESS[cap]

NoSize == -1

\* GET /health
health_result ==
    Reply([status |-> "ok",
           access_level |-> IF \E k \in LevelNames : LEVELS[k] = ACCESS
                            THEN CHOOSE k \in LevelNames : LEVELS[k] = ACCESS
                            ELSE "unknown",
           permissions |-> [read |-> ACCESS.fs_read, write |-> ACCESS.fs_write,
                            delete |-> ACCESS.fs_delete, exec |-> ACCESS.exec]],
          fs, {})

ListEntries(target) ==
    LET present(n) == Append(target, n) \in Nodes /\ exists(fs, Append(target, n))
        names == SelectSeq(SortedNames, present)
    IN  [i \in 1..Len(names) |->
            LET item == Append(target, names[i]) IN
            [name |-> names[i],
             type |-> IF is_dir(fs, item) THEN "dir" ELSE "file",
             size |-> IF is_file(fs, item) THEN Len(fs[item].data) ELSE NoSize]]

\* GET /fs/ls
fs_ls(authorization, path) ==
    LET auth == require_auth(authorization)
        target == Resolve(path)
    IN  IF auth.status # 200 THEN Refuse(auth)
        ELSE IF Forbidden("fs_read") THEN Refuse(HttpError(403, "Read access disabled"))
        ELSE IF ~exists(fs, target) THEN Fail(404, "Path not found", fs, {"stat"})
        ELSE IF ~is_dir(fs, target)
             THEN Reply([path |-> target, type |-> "file",
                         size |-> Len(fs[target].data)], fs, {"stat"})
             ELSE Reply([path |-> target, entries |-> ListEntries(target)],
                        fs, {"stat", "list"})

\* GET /fs/read
fs_read(authorization, path) ==
    LET auth == require_auth(authorization)
        target == Resolve(path)
    IN  IF auth.status # 200 THEN Refuse(auth)
        ELSE IF Forbidden("fs_read") THEN Refuse(HttpError(403, "Read access disabled"))
        ELSE IF ~exists(fs, target) THEN Fail(404, "File not found", fs, {"stat"})
        ELSE IF ~is_file(fs, target) THEN Fail(400, "Not a file", fs, {"stat"})
        ELSE IF Decodable(fs[target].data)
             THEN LET content == read_text(fs[target].data)
                  IN  Reply([path |-> target, content |-> content,
                             size |-> Len(content)], fs, {"stat", "read"})
             ELSE Reply([path |-> target, error |-> "binary file",
                         size |-> Len(fs[target].data)], fs, {"stat", "read"})

fs_write_body(path, content, mode) ==
    LET target == Resolve(path)
        up == mkdir(fs, Parent(target))
        done == IF mode = "append" THEN write_append(up.fs, target, content)
                ELSE write_text(up.fs, target, content)
    IN  IF ~up.ok THEN Fail(500, up.error, up.fs, {"mkdir"})
        ELSE IF ~done.ok THEN Fail(500, done.error, done.fs, {"mkdir", "write"})
        ELSE Reply([path |-> target, written |-> Len(content), mode |-> mode],
                   done.fs, {"mkdir", "write"})

fs_write_no_auth(authorization, path, content, mode) ==
    IF Forbidden("fs_write") THEN Refuse(HttpError(403, "Write access disabled"))
    ELSE fs_write_body(path, content, mode)

\* POST /fs/write
fs_write(authorization, path, content, mode) ==
    LET auth == require_auth(authorization)
    IN  IF auth.status # 200 THEN Refuse(auth)
        ELSE IF Forbidden("fs_write")
             THEN Refuse(HttpError(403, "Write access disabled"))
             ELSE fs_write_body(path, content, mode)

\* POST /fs/mkdir
fs_mkdir(authorization, path) ==
    LET auth == require_auth(authorization)
        target == Resolve(path)
        made == mkdir(fs, target)
    IN  IF auth.status # 200 THEN Refuse(auth)
        ELSE IF Forbidden("fs_write")
             THEN Refuse(HttpError(403, "Write access disabled"))
             ELSE IF ~made.ok THEN Fail(500, made.error, made.fs, {"mkdir"})
                  ELSE Reply([path |-> target, created |-> TRUE], made.fs, {"mkdir"})

\* POST /fs/rm
fs_rm(authorization, path) ==
    LET auth == require_auth(authorization)
        target == Resolve(path)
    IN  IF auth.status # 200 THEN Refuse(auth)
        ELSE IF Forbidden("fs_delete")
             THEN Refuse(HttpError(403, "Delete access disabled"))
             ELSE IF ~exists(fs, target)
                  THEN Fail(404, "Path not found", fs, {"stat"})
                  ELSE Reply([path |-> target, removed |-> TRUE],
                             IF is_dir(fs, target) THEN rmtree(fs, target)
                             ELSE unlink(fs, target),
                             {"stat", "rm"})

\* POST /exec
exec_command(authorization, cmd, cwd, timeout) ==
    LET auth == require_auth(authorization)
        run == subprocess_run(fs, cmd, cwd, timeout)
        es == IF run.spawned THEN {"spawn"} ELSE {}
        left == procs + run.residual
    IN  IF auth.status # 200 THEN Refuse(auth)
        ELSE IF Forbidden("exec") THEN Refuse(HttpError(403, "Exec disabled"))
        ELSE IF run.outcome = "completed"
             THEN [resp |-> Response(200, "",
                                     [cmd |-> cmd, cwd |-> cwd, stdout |-> run.stdout,
                                      stderr |-> run.stderr,
                                      returncode |-> run.returncode]),
                   fs |-> fs, procs |-> left, effects |-> es]
             ELSE [resp |-> Response(CASE run.outcome = "TimeoutExpired" -> 408
                                       [] run.outcome = "FileNotFoundError" -> 400
                                       [] OTHER -> 500,
                                     CASE run.outcome = "TimeoutExpired" -> "Command timed out"
                                       [] run.outcome = "FileNotFoundError" -> "Command not found"
                                       [] OTHER -> run.outcome,
                                     <<>>),
                   fs |-> fs, procs |-> left, effects |-> es]

\* POST /v1/chat/completions; upstream is what OLLAMA_HOST names: "unset",
\* a host that answers ("up") or one that does not ("down").
chat_completions(authorization, upstream) ==
    LET auth == require_auth(authorization)
    IN  IF auth.status # 200 THEN Refuse(auth)
        ELSE IF upstream = "unset"
             THEN Reply([id |-> "trapdoor-1", content |-> "Chat proxy not configured"],
                        fs, {})
             ELSE IF upstream = "up"
                  THEN Reply([id |-> "upstream", content |-> "relayed"], fs, {"relay"})
                  ELSE Fail(500, "ConnectionError", fs, {"relay"})

-----------------------------------------------------------------------------
(* The requests the model sends.                                           *)

Secrets == {<<"s">>, <<"t">>}

Headers ==
    {NoHeader,
     HeaderOf(<<"b", "e", "a", "r", "e", "r", " ", "s">>),
     HeaderOf(BearerPrefix \o <<"s">>),
     HeaderOf(BearerPrefix \o <<"t">>)}

RawPaths == {<<"a">>, <<"~", "b">>, <<"a", "b", "..">>}
Contents == {<<"x">>, <<CR, LF>>}
Modes == {"write", "append"}
ExecRequest(cmd, cwd, timeout) == [cmd |-> cmd, cwd |-> cwd, timeout |-> timeout]
ExecRequests ==
    {ExecRequest(<<"echo">>, TmpDir, 1),
     ExecRequest(<<"echo">>, <<"a">>, 3),
     ExecRequest(<<"fail">>, TmpDir, 1),
     ExecRequest(<<"fail">>, TmpDir, 3),
     ExecRequest(<<"tree">>, TmpDir, 1),
     ExecRequest(<<"spawn">>, TmpDir, 3),
     ExecRequest(<<"bin">>, TmpDir, 3),
     ExecRequest(<<"nope">>, TmpDir, 3),
     ExecRequest(<<"noexec">>, TmpDir, 3),
     ExecRequest(<<>>, TmpDir, 3)}
Upstreams == {"unset", "up", "down"}

EmptyFs == [p \in Nodes |-> Absent]
\* A host that already holds a text file, and one that holds a binary file.
TextFs == [p \in Nodes |-> IF p = <<"a">> THEN Dir ELSE File(<<"h", CR, LF>>)]
BinaryFs == [p \in Nodes |-> IF p = <<"a">> THEN File(<<BAD>>) ELSE Absent]

-----------------------------------------------------------------------------
(* The state machine.                                                      *)

\* The state when uvicorn starts serving: main() has set ACCESS to one of
\* the three levels and the module has loaded TOKEN.
Init ==
    /\ ACCESS \in {LEVELS[l] : l \in LevelNames}
    /\ TOKEN \in Secrets
    /\ fs \in {EmptyFs, TextFs, BinaryFs}
    /\ procs = 0
    /\ req = [op |-> "none"]
    /\ resp = Response(0, "", <<>>)
    /\ effects = {}

Commit_resets_access(r) ==
    /\ \A p \in Nodes : Len(r.fs[p].data) <= MaxFileLen
    /\ r.procs <= MaxProcs
    /\ resp' = r.resp
    /\ fs' = r.fs
    /\ procs' = r.procs
    /\ effects' = r.effects
    /\ ACCESS' = LEVELS["limited"]
    /\ UNCHANGED TOKEN

\* The handler's result r becomes the state; no handler assigns the globals.
\* A result beyond the model's bounds is not taken.
Commit(r) ==
    /\ \A p \in Nodes : Len(r.fs[p].data) <= MaxFileLen
    /\ r.procs <= MaxProcs
    /\ resp' = r.resp
    /\ fs' = r.fs
    /\ procs' = r.procs
    /\ effects' = r.effects
    /\ UNCHANGED <<ACCESS, TOKEN>>

Health ==
    /\ req' = [op |-> "health"]
    /\ Commit(health_result)

FsLs ==
    \E h \in Headers, p \in RawPaths \cup {Root} :
        /\ req' = [op |-> "ls", authorization |-> h, path |-> p]
        /\ Commit(fs_ls(h, p))

FsRead ==
    \E h \in Headers, p \in RawPaths :
        /\ req' = [op |-> "read", authorization |-> h, path |-> p]
        /\ Commit(fs_read(h, p))

FsWrite ==
    \E h \in Headers, p \in RawPaths, c \in Contents, m \in Modes :
        /\ req' = [op |-> "write", authorization |-> h, path |-> p,
                   content |-> c, mode |-> m]
        /\ Commit(fs_write(h, p, c, m))

FsMkdir ==
    \E h \in Headers, p \in RawPaths :
        /\ req' = [op |-> "mkdir", authorization |-> h, path |-> p]
        /\ Commit(fs_mkdir(h, p))

FsRm ==
    \E h \in Headers, p \in RawPaths :
        /\ req' = [op |-> "rm", authorization |-> h, path |-> p]
        /\ Commit(fs_rm(h, p))

ExecCommand ==
    \E h \in Headers, e \in ExecRequests :
        /\ req' = [op |-> "exec", authorization |-> h, cmd |-> e.cmd,
                   cwd |-> e.cwd, timeout |-> e.timeout]
        /\ Commit(exec_command(h, e.cmd, e.cwd, e.timeout))

ChatCompletions ==
    \E h \in Headers, u \in Upstreams :
        /\ req' = [op |-> "chat", authorization |-> h, upstream |-> u]
        /\ Commit(chat_completions(h, u))

Next ==
    \/ Health
    \/ FsLs
    \/ FsRead
    \/ FsWrite
    \/ FsMkdir
    \/ FsRm
    \/ ExecCommand
    \/ ChatCompletions

Spec == Init /\ [][Next]_vars

-----------------------------------------------------------------------------
(* Vocabulary of the properties.                                           *)

GatedOps == {"ls", "read", "write", "mkdir", "rm", "exec"}
ProtectedOps == GatedOps \cup {"chat"}

\* The capability each gated operation needs.
RequiredCapability(op) ==
    CASE op \in {"ls", "read"} -> "fs_read"
      [] op \in {"write", "mkdir"} -> "fs_write"
      [] op = "rm" -> "fs_delete"
      [] op = "exec" -> "exec"

\* The header has the form "Bearer <token>".
BearerForm(h) ==
    /\ h.present
    /\ Len(h.value) >= 7
    /\ \A i \in 1..7 : h.value[i] = BearerPrefix[i]

\* The token a header of that form presents.
PresentedToken(h) == [i \in 1..(Len(h.value) - 7) |-> h.value[i + 7]]

\* The request carries the correct token.
CorrectToken(r) ==
    /\ r.op \in ProtectedOps
    /\ BearerForm(r.authorization)
    /\ PresentedToken(r.authorization) = TOKEN

\* The request passed authentication and its capability is enabled.
Admitted(r) ==
    /\ CorrectToken(r)
    /\ r.op \in GatedOps => ACCESS[RequiredCapability(r.op)]

-----------------------------------------------------------------------------
\* C1: a request for a gated operation that carries the correct token while
\* the capability the operation needs is disabled at the active level is
\* answered 403, whatever its target; the filesystem is left as it was and no
\* process is spawned.
C1_DisabledCapabilityIsForbidden ==
    [][(/\ req'.op \in GatedOps
        /\ CorrectToken(req')
        /\ ~ACCESS[RequiredCapability(req'.op)])
       => (/\ resp'.status = 403
           /\ fs' = fs
           /\ procs' = procs
           /\ effects' = {})]_vars

\* A delete of an existing path, with the correct token, refused at a level
\* without the delete capability.
C1_Witness ==
    /\ req.op = "rm"
    /\ CorrectToken(req)
    /\ ~ACCESS.fs_delete
    /\ exists(fs, Resolve(req.path))
    /\ resp.status = 403

\* C2: on every protected endpoint a header that is absent or not of the form
\* "Bearer <token>" is answered 401, a header of that form whose token is not
\* the stored secret is answered 403, and only the stored secret passes; the
\* answer to a failed authentication is the same for every level and target.
C2_AuthenticationOutcome ==
    req.op \in ProtectedOps =>
        LET h == req.authorization IN
        /\ ~BearerForm(h) =>
               resp = Response(401, "Missing Authorization header", <<>>)
        /\ (BearerForm(h) /\ PresentedToken(h) # TOKEN) =>
               resp = Response(403, "Invalid token", <<>>)
        /\ (BearerForm(h) /\ PresentedToken(h) = TOKEN) =>
               /\ resp.status # 401
               /\ resp.detail # "Invalid token"

\* A delete of an existing path at level full, refused for its wrong token.
C2_Witness ==
    /\ req.op = "rm"
    /\ BearerForm(req.authorization)
    /\ PresentedToken(req.authorization) # TOKEN
    /\ ACCESS.fs_delete
    /\ exists(fs, Resolve(req.path))
    /\ resp.status = 403

\* C3: the filesystem changes, a file is read or listed, a process is spawned
\* or left running, or a chat is relayed only in a step that serves a request
\* carrying the correct token; a request that fails authentication has no
\* effect at all, not even a look at its target.
C3_NoEffectBeforeAuthentication ==
    [][(fs' # fs \/ procs' # procs \/ effects' # {}) => CorrectToken(req')]_vars

\* A command was spawned.
C3_Witness ==
    /\ req.op = "exec"
    /\ "spawn" \in effects
    /\ CorrectToken(req)

\* C4: each capability granted at limited is granted at solid, and each
\* granted at solid is granted at full; no level grants delete without write;
\* only full grants execute.  The active table is one of the three.
C4_TiersMonotonic ==
    /\ \A c \in {"fs_read", "fs_write", "fs_delete", "exec"} :
           /\ LEVELS["limited"][c] => LEVELS["solid"][c]
           /\ LEVELS["solid"][c] => LEVELS["full"][c]
    /\ \A l \in LevelNames : LEVELS[l].fs_delete => LEVELS[l].fs_write
    /\ \A l \in LevelNames \ {"full"} : ~LEVELS[l].exec
    /\ \E l \in LevelNames : ACCESS = LEVELS[l]

\* At level solid a write has succeeded: solid grants write, which limited
\* does not.
C4_Witness ==
    /\ ACCESS = LEVELS["solid"]
    /\ req.op = "write"
    /\ resp.status = 200

\* The request r was admitted and asks for operation op on the path that the
\* raw path p names.
AdmittedOn(r, op, p) ==
    /\ r.op = op
    /\ Admitted(r)
    /\ Resolve(r.path) = Resolve(p)

\* C5: a successful write of content C to path P in mode "write", followed at
\* once by a read of P, returns content C and size Len(C).
C5_WriteThenReadRoundTrip ==
    [][(/\ req.op = "write"
        /\ req.mode = "write"
        /\ resp.status = 200
        /\ AdmittedOn(req', "read", req.path))
       => (/\ resp'.status = 200
           /\ resp'.body.content = req.content
           /\ resp'.body.size = Len(req.content))]_vars

\* C6: a successful write of A to P in mode "write" followed at once by a
\* write of B to P in mode "append" succeeds and leaves P a file that stores
\* A followed by B; every successful write in mode "write" leaves P a file
\* that stores exactly the content written.
C6_AppendSemantics ==
    [][/\ (/\ req.op = "write"
           /\ req.mode = "write"
           /\ resp.status = 200
           /\ AdmittedOn(req', "write", req.path)
           /\ req'.mode = "append")
          => (/\ resp'.status = 200
              /\ fs'[Resolve(req.path)] = File(req.content \o req'.content))
       /\ (/\ req'.op = "write"
           /\ req'.mode = "write"
           /\ resp'.status = 200)
          => fs'[Resolve(req'.path)] = File(req'.content)]_vars

\* An append has left a file that stores "x" followed by "\r\n".
C6_Witness ==
    /\ req.op = "write"
    /\ req.mode = "append"
    /\ req.content = <<CR, LF>>
    /\ resp.status = 200
    /\ fs[Resolve(req.path)] = File(<<"x", CR, LF>>)

\* The path p, or a path above it, is a regular file.
FileInTheWay(f, p) ==
    \E q \in Nodes : IsPrefix(q, p) /\ is_file(f, q)

Launched(f, r) ==
    /\ r.cmd # <<>>
    /\ Programs[r.cmd[1]].launch = "ok"
    /\ r.cwd = TmpDir \/ is_dir(f, r.cwd)

\* C9: at level full, a launched command that runs longer than the timeout of
\* its request is answered 408, and once answered leaves no process running
\* that was not running before.
C9_TimeoutKillsEverything ==
    [][(/\ req'.op = "exec"
        /\ Admitted(req')
        /\ Launched(fs, req')
        /\ Programs[req'.cmd[1]].dur > req'.timeout)
       => (/\ resp'.status = 408
           /\ procs' = procs)]_vars

\* C10: at level full, a launched command that exits within the timeout of
\* its request is answered 200 with the text it printed and its exit code.
C10_ExitCodePassthrough ==
    [][(/\ req'.op = "exec"
        /\ Admitted(req')
        /\ Launched(fs, req')
        /\ Programs[req'.cmd[1]].dur <= req'.timeout)
       => (/\ resp'.status = 200
           /\ resp'.body.returncode = Programs[req'.cmd[1]].rc
           /\ resp'.body.stdout = UniversalNewlines(Programs[req'.cmd[1]].out)
           /\ resp'.body.stderr = UniversalNewlines(Programs[req'.cmd[1]].err))]_vars

\* C11: no request, served or refused, changes the active permission table
\* or the stored secret: both keep the values they had when the server
\* started serving, so a capability that is denied stays denied.
C11_GlobalsNeverChange ==
    [][/\ ACCESS' = ACCESS
       /\ TOKEN' = TOKEN
       /\ \A c \in {"fs_read", "fs_write", "fs_delete", "exec"} :
              ~ACCESS[c] => ~ACCESS'[c]]_vars

\* After a write has succeeded at level solid, a delete with the correct
\* token is still refused: the level is the one chosen at start-up.
C11_Witness ==
    /\ ACCESS = LEVELS["solid"]
    /\ req.op = "rm"
    /\ CorrectToken(req)
    /\ resp.status = 403
    /\ fs[<<"a">>] = File(<<"x">>)

====
